---- MODULE Spec2Model ----
(***************************************************************************)
(* The habit store of src/app.py: four SQLite tables (Habits, HabitDays,   *)
(* HabitTimes, completions), the repository functions over them and the    *)
(* HTTP handlers that call them.                                           *)
(*                                                                         *)
(* Every repository function opens its own sqlite3 connection.  A          *)
(* connection's INSERT/UPDATE/DELETE opens a write transaction that holds  *)
(* the database's single write lock until commit or until the connection   *)
(* is closed; other connections read the committed image only.  The        *)
(* connections are opened without PRAGMA foreign_keys, so the FOREIGN KEY  *)
(* ... ON DELETE CASCADE clauses of the schema are not enforced.           *)
(***************************************************************************)
EXTENDS Integers, Sequences, FiniteSets, TLC

\* ---------------------------------------------------------------- bounds
MaxHabits == 2
MaxCompletions == 2
MaxList == 2

\* ---------------------------------------------------------------- schema
\* CHECK (Type IN (...)), CHECK (Day IN (...)), CHECK (Time IN (...))
Types == {"Health", "Learning", "Creativity", "Productivity"}
DayNames == {"Monday", "Tuesday", "Wednesday", "Thursday", "Friday", "Saturday", "Sunday"}
Periods == {"Morning", "Afternoon", "Evening"}
HabitCols == {"Desc", "Priority", "Prefernces", "Type", "Time", "Remarks"}

\* Text is a sequence of character codes; "" is <<>>.
EmptyText == <<>>

\* The database image right after init_database: four empty tables and the
\* AUTOINCREMENT counters (sqlite_sequence) of Habits and completions.
EmptyDb ==
  [Habits |-> <<>>, HabitDays |-> <<>>, HabitTimes |-> <<>>, completions |-> <<>>,
   seqHabits |-> 0, seqCompletions |-> 0]

VARIABLES
  db,    \* the committed database image, what any other connection reads
  lock,  \* holder of the write lock: "free", a request slot, or "orphan"
  ret,   \* the response of the last finished request
  pc,    \* per request slot: position inside its repository function
  req,   \* per request slot: the request being served
  conn   \* per request slot: the image seen by its open write transaction

vars == <<db, lock, ret, pc, req, conn>>

Slots == {"s1", "s2"}

\* ------------------------------------------------------------ sequences
SeqsUpTo(S, n) == UNION {[1..k -> S] : k \in 0..n}

NonEmptySeqsUpTo(S, n) == SeqsUpTo(S, n) \ {<<>>}

RECURSIVE CountIn(_, _)
CountIn(s, x) ==
  IF s = <<>> THEN 0 ELSE (IF Head(s) = x THEN 1 ELSE 0) + CountIn(Tail(s), x)

\* Equality as multisets.
SameBag(s, t) ==
  /\ Len(s) = Len(t)
  /\ \A i \in 1..Len(s) : CountIn(s, s[i]) = CountIn(t, s[i])

\* ------------------------------------------------------- SQL statements
\* SELECT ... FROM <table> WHERE HabitID = ? (rows in rowid order)
RECURSIVE RowsOf(_, _)
RowsOf(rows, habit_id) ==
  IF rows = <<>> THEN <<>>
  ELSE (IF Head(rows).HabitID = habit_id THEN <<Head(rows)>> ELSE <<>>)
         \o RowsOf(Tail(rows), habit_id)

\* DELETE FROM <table> WHERE HabitID = ?
RECURSIVE RowsNotOf(_, _)
RowsNotOf(rows, habit_id) ==
  IF rows = <<>> THEN <<>>
  ELSE (IF Head(rows).HabitID = habit_id THEN <<>> ELSE <<Head(rows)>>)
         \o RowsNotOf(Tail(rows), habit_id)

\* SELECT * FROM completions WHERE habit_id = ?
RECURSIVE CompletionsOf(_, _)
CompletionsOf(rows, habit_id) ==
  IF rows = <<>> THEN <<>>
  ELSE (IF Head(rows).habit_id = habit_id THEN <<Head(rows)>> ELSE <<>>)
         \o CompletionsOf(Tail(rows), habit_id)

\* Every element of a list passes a CHECK (... IN (...)) constraint.
AllValid(list, allowed) == \A i \in 1..Len(list) : list[i] \in allowed

\* ------------------------------------------------- repository functions
\* Variant of insert_habit for a key without AUTOINCREMENT: the new id is one
\* more than the largest id a row has now.
insert_habit_rowid(d, desc, priority, preferences, habit_type, time, remarks) ==
  LET habit_id == IF DOMAIN d.Habits = {} THEN 1
                  ELSE 1 + CHOOSE x \in DOMAIN d.Habits : \A y \in DOMAIN d.Habits : y <= x
      row == [Desc |-> desc, Priority |-> priority, Prefernces |-> preferences,
              Type |-> habit_type, Time |-> time, Remarks |-> remarks]
  IN [d EXCEPT !.Habits = [i \in DOMAIN d.Habits \cup {habit_id} |->
                             IF i = habit_id THEN row ELSE d.Habits[i]],
               !.seqHabits = habit_id]

\* insert_habit: one Habits row under the next AUTOINCREMENT id.
insert_habit(d, desc, priority, preferences, habit_type, time, remarks) ==
  LET habit_id == d.seqHabits + 1
      row == [Desc |-> desc, Priority |-> priority, Prefernces |-> preferences,
              Type |-> habit_type, Time |-> time, Remarks |-> remarks]
  IN [d EXCEPT !.Habits = [i \in DOMAIN d.Habits \cup {habit_id} |->
                             IF i = habit_id THEN row ELSE d.Habits[i]],
               !.seqHabits = habit_id]

\* A list without its repeated elements (first occurrences kept).
RECURSIVE Dedup(_)
Dedup(s) ==
  IF s = <<>> THEN <<>>
  ELSE LET r == Dedup(SubSeq(s, 1, Len(s) - 1))
       IN IF \E i \in 1..Len(r) : r[i] = s[Len(s)] THEN r ELSE Append(r, s[Len(s)])

\* Variant of insert_habit_days that inserts each distinct day once.
insert_habit_days_distinct(d, habit_id, days_list) ==
  [d EXCEPT !.HabitDays =
     @ \o [i \in 1..Len(Dedup(days_list)) |->
             [HabitID |-> habit_id, Day |-> Dedup(days_list)[i]]]]

\* insert_habit_days: one HabitDays row per element, duplicates included.
insert_habit_days(d, habit_id, days_list) ==
  [d EXCEPT !.HabitDays =
     @ \o [i \in 1..Len(days_list) |-> [HabitID |-> habit_id, Day |-> days_list[i]]]]

\* insert_habit_times: one HabitTimes row per element, counters 0, 0.
insert_habit_times(d, habit_id, times_list) ==
  [d EXCEPT !.HabitTimes =
     @ \o [i \in 1..Len(times_list) |->
             [HabitID |-> habit_id, Time |-> times_list[i],
              No_of_days_Completed |-> 0, Total_no_of_days |-> 0]]]

\* get_habit_by_id's result for a habit that exists: the row, the Day of every
\* HabitDays row and the Time of every HabitTimes row wrapped as {time: ...}.
HabitDict(d, habit_id) ==
  LET dayRows == RowsOf(d.HabitDays, habit_id)
      timeRows == RowsOf(d.HabitTimes, habit_id)
  IN [ID |-> habit_id,
      Desc |-> d.Habits[habit_id].Desc,
      Priority |-> d.Habits[habit_id].Priority,
      Prefernces |-> d.Habits[habit_id].Prefernces,
      Type |-> d.Habits[habit_id].Type,
      Time |-> d.Habits[habit_id].Time,
      Remarks |-> d.Habits[habit_id].Remarks,
      days |-> [i \in 1..Len(dayRows) |-> dayRows[i].Day],
      times |-> [i \in 1..Len(timeRows) |-> [time |-> timeRows[i].Time]]]

\* get_habit_by_id returns None when no Habits row has the id.
HabitExists(d, habit_id) == habit_id \in DOMAIN d.Habits

\* delete_habit: DELETE FROM Habits WHERE ID = ?.  The connection never ran
\* PRAGMA foreign_keys = ON, so no HabitDays, HabitTimes or completions row
\* is touched by the statement.
delete_habit(d, habit_id) ==
  [d EXCEPT !.Habits = [i \in DOMAIN d.Habits \ {habit_id} |-> d.Habits[i]]]

\* Variant of update_habit that tests each argument for truth ("if priority:")
\* instead of "is not None", so a supplied 0 or '' is skipped.
update_habit_truthy(d, habit_id, fields) ==
  IF DOMAIN fields = {} THEN d
  ELSE [d EXCEPT !.Habits =
          [i \in DOMAIN d.Habits |->
             IF i = habit_id
               THEN [c \in HabitCols |->
                       IF c \in DOMAIN fields /\ ~(c = "Priority" /\ fields[c] = 0)
                         THEN fields[c] ELSE d.Habits[i][c]]
               ELSE d.Habits[i]]]

\* update_habit: SET only the columns whose argument is not None.  fields is
\* the function from the supplied column names to their new values; with no
\* column supplied no statement runs.
update_habit(d, habit_id, fields) ==
  IF DOMAIN fields = {} THEN d
  ELSE [d EXCEPT !.Habits =
          [i \in DOMAIN d.Habits |->
             IF i = habit_id
               THEN [c \in HabitCols |->
                       IF c \in DOMAIN fields THEN fields[c] ELSE d.Habits[i][c]]
               ELSE d.Habits[i]]]

\* Variant of UpdateCounters that leaves Total_no_of_days as it is.
UpdateCountersCompletedOnly(rows, habit_id, time_period) ==
  [i \in 1..Len(rows) |->
     IF rows[i].HabitID = habit_id /\ rows[i].Time = time_period
       THEN [rows[i] EXCEPT !.No_of_days_Completed = @ + 1]
       ELSE rows[i]]

\* UPDATE HabitTimes SET No_of_days_Completed = No_of_days_Completed + 1,
\* Total_no_of_days = Total_no_of_days + 1 WHERE HabitID = ? AND Time = ?
UpdateCounters(rows, habit_id, time_period) ==
  [i \in 1..Len(rows) |->
     IF rows[i].HabitID = habit_id /\ rows[i].Time = time_period
       THEN [rows[i] EXCEPT !.No_of_days_Completed = @ + 1, !.Total_no_of_days = @ + 1]
       ELSE rows[i]]

\* add_completion's loop: one UPDATE per row the SELECT Time returned.
RECURSIVE IncrementEach(_, _, _)
IncrementEach(rows, habit_id, times) ==
  IF times = <<>> THEN rows
  ELSE IncrementEach(UpdateCounters(rows, habit_id, Head(times).Time), habit_id, Tail(times))

\* add_completion, first statement: the completions row under the next id.
InsertCompletion(d, habit_id, completed_at) ==
  [d EXCEPT !.completions =
              Append(@, [id |-> d.seqCompletions + 1, habit_id |-> habit_id,
                         completed_at |-> completed_at]),
            !.seqCompletions = @ + 1]

\* add_completion, the SELECT Time and the UPDATE loop, in the same transaction.
IncrementProgress(d, habit_id) ==
  [d EXCEPT !.HabitTimes = IncrementEach(@, habit_id, RowsOf(d.HabitTimes, habit_id))]

add_completion(d, habit_id, completed_at) ==
  IncrementProgress(InsertCompletion(d, habit_id, completed_at), habit_id)

\* SQLite's BINARY collation on TEXT: byte by byte, a proper prefix first.
RECURSIVE TextLess(_, _)
TextLess(a, b) ==
  IF b = <<>> THEN FALSE
  ELSE IF a = <<>> THEN TRUE
  ELSE IF Head(a) # Head(b) THEN Head(a) < Head(b)
  ELSE TextLess(Tail(a), Tail(b))

\* The number a text of decimal digits denotes.
RECURSIVE DigitsValue(_)
DigitsValue(t) ==
  IF t = <<>> THEN 0 ELSE 10 * DigitsValue(SubSeq(t, 1, Len(t) - 1)) + (t[Len(t)] - 48)

\* Variant of the ordering that compares the clock times as numbers.
BeforeNumericTime(r1, r2) ==
  \/ r1.Priority > r2.Priority
  \/ r1.Priority = r2.Priority /\ DigitsValue(r1.Time) < DigitsValue(r2.Time)

\* ORDER BY Priority DESC, Time ASC: row r1 sorts strictly before row r2.
Before(r1, r2) ==
  \/ r1.Priority > r2.Priority
  \/ r1.Priority = r2.Priority /\ TextLess(r1.Time, r2.Time)

\* The sorter: rows are taken in rowid order and rows with equal keys keep it.
RECURSIVE InsertSorted(_, _, _)
InsertSorted(d, sorted, habit_id) ==
  IF sorted = <<>> THEN <<habit_id>>
  ELSE IF Before(d.Habits[habit_id], d.Habits[Head(sorted)]) THEN <<habit_id>> \o sorted
  ELSE <<Head(sorted)>> \o InsertSorted(d, Tail(sorted), habit_id)

RECURSIVE OrderBy(_, _)
OrderBy(d, ids) ==
  IF ids = <<>> THEN <<>>
  ELSE InsertSorted(d, OrderBy(d, SubSeq(ids, 1, Len(ids) - 1)), ids[Len(ids)])

\* The ids of a set as a sequence in ascending (rowid) order.
RECURSIVE Ascending(_)
Ascending(S) ==
  IF S = {} THEN <<>>
  ELSE LET m == CHOOSE x \in S : \A y \in S : x <= y
       IN <<m>> \o Ascending(S \ {m})

\* get_habits' WHERE clause: "if habit_type:" filters only on a non-empty type.
MatchesType(d, habit_id, habit_type) ==
  habit_type = "" \/ d.Habits[habit_id].Type = habit_type

\* SELECT ... FROM <table> WHERE HabitID IN (...) (rows in rowid order)
RECURSIVE RowsIn(_, _)
RowsIn(rows, habit_ids) ==
  IF rows = <<>> THEN <<>>
  ELSE (IF Head(rows).HabitID \in habit_ids THEN <<Head(rows)>> ELSE <<>>)
         \o RowsIn(Tail(rows), habit_ids)

\* Variant of FillDays that appends each day to every habit of the map.
RECURSIVE FillDaysOfAll(_, _)
FillDaysOfAll(habit_map, rows) ==
  IF rows = <<>> THEN habit_map
  ELSE FillDaysOfAll([h \in DOMAIN habit_map |->
                        [habit_map[h] EXCEPT !.days = Append(@, Head(rows).Day)]],
                     Tail(rows))

\* get_habits' loop over the batched HabitDays rows: each day is appended to
\* the habit_map entry of the row's HabitID.
RECURSIVE FillDays(_, _)
FillDays(habit_map, rows) ==
  IF rows = <<>> THEN habit_map
  ELSE FillDays(IF Head(rows).HabitID \in DOMAIN habit_map
                  THEN [habit_map EXCEPT ![Head(rows).HabitID].days = Append(@, Head(rows).Day)]
                  ELSE habit_map,
                Tail(rows))

\* The same loop over the batched HabitTimes rows, appending {time: period}.
RECURSIVE FillTimes(_, _)
FillTimes(habit_map, rows) ==
  IF rows = <<>> THEN habit_map
  ELSE FillTimes(IF Head(rows).HabitID \in DOMAIN habit_map
                   THEN [habit_map EXCEPT ![Head(rows).HabitID].times =
                                            Append(@, [time |-> Head(rows).Time])]
                   ELSE habit_map,
                 Tail(rows))

\* get_habits: the matching rows in order, each entered in habit_map with
\* empty days and times, then the two batched queries that append each
\* HabitDays / HabitTimes row to the habit_map entry of its HabitID.
get_habits(d, habit_type) ==
  LET ids == OrderBy(d, Ascending({h \in DOMAIN d.Habits : MatchesType(d, h, habit_type)}))
      habit_ids == {ids[k] : k \in 1..Len(ids)}
      habit_map == [h \in habit_ids |->
                      [ID |-> h,
                       Desc |-> d.Habits[h].Desc,
                       Priority |-> d.Habits[h].Priority,
                       Prefernces |-> d.Habits[h].Prefernces,
                       Type |-> d.Habits[h].Type,
                       Time |-> d.Habits[h].Time,
                       Remarks |-> d.Habits[h].Remarks,
                       days |-> <<>>,
                       times |-> <<>>]]
      filled == FillTimes(FillDays(habit_map, RowsIn(d.HabitDays, habit_ids)),
                          RowsIn(d.HabitTimes, habit_ids))
  IN [k \in 1..Len(ids) |-> filled[ids[k]]]

\* Number of rows the JOIN produces for one habit: one per pair of a HabitDays
\* row with the day and (when a time period is given) a HabitTimes row with it.
JoinRows(d, habit_id, day, time_of_day) ==
  LET nDays == Cardinality({i \in 1..Len(d.HabitDays) :
                  d.HabitDays[i].HabitID = habit_id /\ d.HabitDays[i].Day = day})
      nTimes == Cardinality({i \in 1..Len(d.HabitTimes) :
                  d.HabitTimes[i].HabitID = habit_id /\ d.HabitTimes[i].Time = time_of_day})
  IN IF time_of_day = "" THEN nDays ELSE nDays * nTimes

\* Variant without DISTINCT: every row of the JOIN is returned.
NotDistinct(n) == n

\* SELECT DISTINCT h.*: a habit row the JOIN produced n times is kept once.
Distinct(n) == IF n > 0 THEN 1 ELSE 0

RECURSIVE Repeat(_, _)
Repeat(x, n) == IF n = 0 THEN <<>> ELSE <<x>> \o Repeat(x, n - 1)

RECURSIVE JoinResult(_, _, _, _)
JoinResult(d, ids, day, time_of_day) ==
  IF ids = <<>> THEN <<>>
  ELSE Repeat(Head(ids), Distinct(JoinRows(d, Head(ids), day, time_of_day)))
         \o JoinResult(d, Tail(ids), day, time_of_day)

\* get_habits_for_day_and_time: each row re-read with its days and its times
\* (the times as plain period names here).
get_habits_for_day_and_time(d, day, time_of_day) ==
  LET ids == OrderBy(d, JoinResult(d, Ascending(DOMAIN d.Habits), day, time_of_day))
  IN [k \in 1..Len(ids) |->
        [HabitDict(d, ids[k]) EXCEPT
           !.times = [i \in 1..Len(@) |-> @[i].time]]]

\* ------------------------------------------------ the write lock
\* A function that raises between its first write statement and its commit
\* never reaches conn.close(): the connection stays open with its write
\* transaction, and so with the write lock, until the interpreter's collector
\* frees it, which rolls the transaction back.
Orphan == "orphan"

Free == "free"

\* update_habit_days from a handler state s = [db, lock, ok]: the outer
\* connection runs the DELETE (taking the write lock), then insert_habit_days
\* opens a second connection whose INSERT waits for that same lock and raises
\* "database is locked"; the outer commit is reached only when there is
\* nothing to insert.
update_habit_days(s, habit_id, new_days) ==
  IF s.lock # Free THEN [s EXCEPT !.ok = FALSE]
  ELSE IF new_days = <<>>
    THEN [s EXCEPT !.db.HabitDays = RowsNotOf(@, habit_id)]
    ELSE [s EXCEPT !.lock = Orphan, !.ok = FALSE]

\* Variant of update_habit_times whose DELETE and INSERTs run on one connection:
\* the rows of the habit are replaced by fresh rows for the new list.
update_habit_times_replacing(s, habit_id, new_times) ==
  IF s.lock # Free THEN [s EXCEPT !.ok = FALSE]
  ELSE [s EXCEPT !.db = insert_habit_times(
                          [@ EXCEPT !.HabitTimes = RowsNotOf(@, habit_id)],
                          habit_id, new_times)]

\* update_habit_times: the same pattern over HabitTimes.
update_habit_times(s, habit_id, new_times) ==
  IF s.lock # Free THEN [s EXCEPT !.ok = FALSE]
  ELSE IF new_times = <<>>
    THEN [s EXCEPT !.db.HabitTimes = RowsNotOf(@, habit_id)]
    ELSE [s EXCEPT !.lock = Orphan, !.ok = FALSE]

\* update_habit as called by the handler: with no column supplied it only
\* commits an empty transaction; with columns its UPDATE needs the write lock
\* and the Type CHECK.
UpdateHabitStep(s, habit_id, fields) ==
  IF DOMAIN fields = {} THEN s
  ELSE IF s.lock # Free THEN [s EXCEPT !.ok = FALSE]
  ELSE IF "Type" \in DOMAIN fields /\ fields["Type"] \notin Types /\ HabitExists(s.db, habit_id)
    THEN [s EXCEPT !.lock = Orphan, !.ok = FALSE]
    ELSE [s EXCEPT !.db = update_habit(@, habit_id, fields)]

\* An optional request key: <<>> when absent, <<v>> when present with value v.
Absent == <<>>

Present(v) == <<v>>

\* api_update_habit: update_habit, then update_habit_days when 'days' is in
\* the request, then update_habit_times when 'times' is; the first exception
\* ends the handler with a 500, what was committed before it stays.
UpdateOutcome(d, lk, habit_id, fields, daysOpt, timesOpt) ==
  LET s0 == [db |-> d, lock |-> lk, ok |-> TRUE]
      s1 == UpdateHabitStep(s0, habit_id, fields)
      s2 == IF s1.ok /\ daysOpt # Absent THEN update_habit_days(s1, habit_id, daysOpt[1]) ELSE s1
      s3 == IF s2.ok /\ timesOpt # Absent THEN update_habit_times(s2, habit_id, timesOpt[1]) ELSE s2
  IN s3

\* api_create_habit: validation, insert_habit, insert_habit_days, the inline
\* HabitTimes inserts (rolled back and closed on error), get_habit_by_id.
CreateOutcome(d, lk, desc, priority, preferences, habit_type, time, remarks, days, times) ==
  IF desc = "" \/ days = <<>> \/ times = <<>>
    THEN [db |-> d, lock |-> lk, status |-> 400]
  ELSE IF lk # Free THEN [db |-> d, lock |-> lk, status |-> 500]
  ELSE IF habit_type \notin Types THEN [db |-> d, lock |-> Orphan, status |-> 500]
  ELSE LET d1 == insert_habit(d, desc, priority, preferences, habit_type, time, remarks)
           habit_id == d1.seqHabits
       IN IF ~AllValid(days, DayNames) THEN [db |-> d1, lock |-> Orphan, status |-> 500]
          ELSE IF ~AllValid(times, Periods)
            THEN [db |-> insert_habit_days(d1, habit_id, days), lock |-> Free, status |-> 500]
            ELSE [db |-> insert_habit_times(insert_habit_days(d1, habit_id, days),
                                            habit_id, times),
                  lock |-> Free, status |-> 200]

\* ------------------------------------------------------------- handlers
\* Each handler below runs from request to response in one step.
Quiet == \A p \in Slots : pc[p] = "idle"

ApiCreateHabit(desc, priority, preferences, habit_type, time, remarks, days, times) ==
  /\ Quiet
  /\ LET out == CreateOutcome(db, lock, desc, priority, preferences, habit_type,
                              time, remarks, days, times)
         inserted == out.db.seqHabits # db.seqHabits
         habit_id == out.db.seqHabits
     IN /\ db' = out.db
        /\ lock' = out.lock
        /\ ret' = [op |-> "create", status |-> out.status,
                   habit_id |-> IF inserted THEN habit_id ELSE 0,
                   body |-> IF out.status = 200 THEN HabitDict(out.db, habit_id) ELSE <<>>,
                   args |-> [days |-> days, times |-> times]]
  /\ UNCHANGED <<pc, req, conn>>

ApiUpdateHabit(habit_id, fields, daysOpt, timesOpt) ==
  /\ Quiet
  /\ LET out == UpdateOutcome(db, lock, habit_id, fields, daysOpt, timesOpt)
     IN /\ db' = out.db
        /\ lock' = out.lock
        /\ ret' = [op |-> "update", status |-> IF out.ok THEN 200 ELSE 500,
                   habit_id |-> habit_id,
                   body |-> <<>>,
                   args |-> [fields |-> fields, days |-> daysOpt, times |-> timesOpt,
                             existed |-> HabitExists(db, habit_id)]]
  /\ UNCHANGED <<pc, req, conn>>

\* api_delete_habit: a locked database raises inside delete_habit -> 500.
ApiDeleteHabit(habit_id) ==
  /\ Quiet
  /\ db' = IF lock = Free THEN delete_habit(db, habit_id) ELSE db
  /\ ret' = [op |-> "delete", status |-> IF lock = Free THEN 200 ELSE 500,
             habit_id |-> habit_id, body |-> <<>>,
             args |-> [existed |-> HabitExists(db, habit_id)]]
  /\ UNCHANGED <<lock, pc, req, conn>>

\* api_get_habit: 404 when get_habit_by_id returns None.
ApiGetHabit(habit_id) ==
  /\ Quiet
  /\ ret' = [op |-> "get", status |-> IF HabitExists(db, habit_id) THEN 200 ELSE 404,
             habit_id |-> habit_id,
             body |-> IF HabitExists(db, habit_id) THEN HabitDict(db, habit_id) ELSE <<>>,
             args |-> <<>>]
  /\ UNCHANGED <<db, lock, pc, req, conn>>

\* api_get_habits
ApiGetHabits(habit_type) ==
  /\ Quiet
  /\ ret' = [op |-> "list", status |-> 200, habit_id |-> 0,
             body |-> get_habits(db, habit_type), args |-> [type |-> habit_type]]
  /\ UNCHANGED <<db, lock, pc, req, conn>>

\* api_get_habits_by_day: 400 without a day.
ApiGetHabitsByDay(day, time_of_day) ==
  /\ Quiet
  /\ ret' = [op |-> "by_day", status |-> IF day = "" THEN 400 ELSE 200, habit_id |-> 0,
             body |-> IF day = "" THEN <<>> ELSE get_habits_for_day_and_time(db, day, time_of_day),
             args |-> [day |-> day, time |-> time_of_day]]
  /\ UNCHANGED <<db, lock, pc, req, conn>>

\* api_add_completion: 400 without a habit id; a locked database raises -> 500.
ApiAddCompletion(habit_id, completed_at) ==
  /\ Quiet
  /\ LET status == IF habit_id = 0 THEN 400 ELSE IF lock = Free THEN 200 ELSE 500
     IN /\ db' = IF status = 200 THEN add_completion(db, habit_id, completed_at) ELSE db
        /\ ret' = [op |-> "complete", status |-> status, habit_id |-> habit_id,
                   body |-> IF status = 200 THEN db.seqCompletions + 1 ELSE 0,
                   args |-> [completed_at |-> completed_at]]
  /\ UNCHANGED <<lock, pc, req, conn>>

\* The collector frees an orphaned connection: its transaction is rolled back
\* and the write lock released.
Collect ==
  /\ lock = Orphan
  /\ lock' = Free
  /\ UNCHANGED <<db, ret, pc, req, conn>>

\* ------------------------------------------- requests served concurrently
\* The development server serves each request on its own thread, so the
\* statements of two repository functions interleave.  A request slot below
\* runs one function statement by statement; a statement that needs the write
\* lock while another connection holds it waits for the busy timeout and then
\* raises "database is locked".
Idle(p) == pc[p] = "idle"

Response(op, status, habit_id, body) ==
  [op |-> op, status |-> status, habit_id |-> habit_id, body |-> body, args |-> <<>>]

\* The rows insert_habit_days / insert_habit_times add for a list.
InsertRows(d, table, habit_id, new) ==
  IF table = "HabitDays" THEN insert_habit_days(d, habit_id, new)
  ELSE insert_habit_times(d, habit_id, new)

\* Variant of ReplaceDelete whose connection commits the DELETE at once, before
\* insert_habit_days / insert_habit_times is called.
ReplaceDeleteCommitted(p, table, habit_id, new) ==
  /\ Idle(p)
  /\ IF lock = Free
       THEN /\ db' = [db EXCEPT ![table] = RowsNotOf(@, habit_id)]
            /\ conn' = [conn EXCEPT ![p] = <<>>]
            /\ pc' = [pc EXCEPT ![p] = "replace_insert"]
            /\ req' = [req EXCEPT ![p] = [table |-> table, habit_id |-> habit_id, new |-> new]]
            /\ UNCHANGED <<lock, ret>>
       ELSE /\ ret' = Response("replace", 500, habit_id, <<>>)
            /\ UNCHANGED <<db, lock, pc, req, conn>>

\* update_habit_days / update_habit_times, the DELETE on the outer connection:
\* it opens the write transaction, so the rows are gone in the connection's
\* own image only.
ReplaceDelete(p, table, habit_id, new) ==
  /\ Idle(p)
  /\ IF lock = Free
       THEN /\ lock' = p
            /\ conn' = [conn EXCEPT ![p] = [db EXCEPT ![table] = RowsNotOf(@, habit_id)]]
            /\ pc' = [pc EXCEPT ![p] = "replace_insert"]
            /\ req' = [req EXCEPT ![p] = [table |-> table, habit_id |-> habit_id, new |-> new]]
            /\ UNCHANGED <<db, ret>>
       ELSE /\ ret' = Response("replace", 500, habit_id, <<>>)
            /\ UNCHANGED <<db, lock, pc, req, conn>>

\* The call of insert_habit_days / insert_habit_times: a second connection.
\* With nothing to insert it takes no lock; otherwise its INSERT commits when
\* the write lock is free and raises when it is held, and the exception leaves
\* the outer connection open with its transaction.
ReplaceInsert(p) ==
  /\ pc[p] = "replace_insert"
  /\ IF req[p].new = <<>>
       THEN /\ pc' = [pc EXCEPT ![p] = "replace_commit"]
            /\ UNCHANGED <<db, lock, ret, req, conn>>
       ELSE IF lock = Free
         THEN /\ db' = InsertRows(db, req[p].table, req[p].habit_id, req[p].new)
              /\ pc' = [pc EXCEPT ![p] = "replace_commit"]
              /\ UNCHANGED <<lock, ret, req, conn>>
         ELSE /\ lock' = IF lock = p THEN Orphan ELSE lock
              /\ ret' = Response("replace", 500, req[p].habit_id, <<>>)
              /\ pc' = [pc EXCEPT ![p] = "idle"]
              /\ req' = [req EXCEPT ![p] = <<>>]
              /\ conn' = [conn EXCEPT ![p] = <<>>]
              /\ UNCHANGED db

\* The outer conn.commit(): the transaction's image becomes the committed one.
ReplaceCommit(p) ==
  /\ pc[p] = "replace_commit"
  /\ db' = IF lock = p THEN conn[p] ELSE db
  /\ lock' = IF lock = p THEN Free ELSE lock
  /\ ret' = Response("replace", 200, req[p].habit_id, <<>>)
  /\ pc' = [pc EXCEPT ![p] = "idle"]
  /\ req' = [req EXCEPT ![p] = <<>>]
  /\ conn' = [conn EXCEPT ![p] = <<>>]

\* Variant of CompletionInsert that commits the completions row before the
\* counters are updated in a transaction of their own.
CompletionInsertCommitted(p, habit_id, completed_at) ==
  /\ Idle(p)
  /\ IF lock = Free
       THEN /\ db' = InsertCompletion(db, habit_id, completed_at)
            /\ lock' = p
            /\ conn' = [conn EXCEPT ![p] = InsertCompletion(db, habit_id, completed_at)]
            /\ pc' = [pc EXCEPT ![p] = "completion_update"]
            /\ req' = [req EXCEPT ![p] = [habit_id |-> habit_id]]
            /\ UNCHANGED ret
       ELSE /\ ret' = Response("complete", 500, habit_id, 0)
            /\ UNCHANGED <<db, lock, pc, req, conn>>

\* Variant of CompletionInsert whose INSERT does not take the write lock, so
\* that two calls work on the same committed rows at once.
CompletionInsertUnlocked(p, habit_id, completed_at) ==
  /\ Idle(p)
  /\ conn' = [conn EXCEPT ![p] = InsertCompletion(db, habit_id, completed_at)]
  /\ pc' = [pc EXCEPT ![p] = "completion_update"]
  /\ req' = [req EXCEPT ![p] = [habit_id |-> habit_id]]
  /\ UNCHANGED <<db, lock, ret>>

\* add_completion, the INSERT INTO completions: it opens the write transaction.
CompletionInsert(p, habit_id, completed_at) ==
  /\ Idle(p)
  /\ IF lock = Free
       THEN /\ lock' = p
            /\ conn' = [conn EXCEPT ![p] = InsertCompletion(db, habit_id, completed_at)]
            /\ pc' = [pc EXCEPT ![p] = "completion_update"]
            /\ req' = [req EXCEPT ![p] = [habit_id |-> habit_id]]
            /\ UNCHANGED <<db, ret>>
       ELSE /\ ret' = Response("complete", 500, habit_id, 0)
            /\ UNCHANGED <<db, lock, pc, req, conn>>

\* add_completion, the SELECT Time and the UPDATE loop, in the transaction.
CompletionUpdate(p) ==
  /\ pc[p] = "completion_update"
  /\ conn' = [conn EXCEPT ![p] = IncrementProgress(@, req[p].habit_id)]
  /\ pc' = [pc EXCEPT ![p] = "completion_commit"]
  /\ UNCHANGED <<db, lock, ret, req>>

\* add_completion, conn.commit(): the row and the counters become visible.
CompletionCommit(p) ==
  /\ pc[p] = "completion_commit"
  /\ db' = conn[p]
  /\ lock' = Free
  /\ ret' = Response("complete", 200, req[p].habit_id, conn[p].seqCompletions)
  /\ pc' = [pc EXCEPT ![p] = "idle"]
  /\ req' = [req EXCEPT ![p] = <<>>]
  /\ conn' = [conn EXCEPT ![p] = <<>>]

\* get_habit_by_id, SELECT * FROM Habits WHERE ID = ?: None when no row.
ReadHabit(p, habit_id) ==
  /\ Idle(p)
  /\ IF HabitExists(db, habit_id)
       THEN /\ pc' = [pc EXCEPT ![p] = "read_days"]
            /\ req' = [req EXCEPT ![p] = [habit_id |-> habit_id, row |-> db.Habits[habit_id],
                                          days |-> <<>>]]
            /\ UNCHANGED ret
       ELSE /\ ret' = Response("get", 404, habit_id, <<>>)
            /\ UNCHANGED <<pc, req>>
  /\ UNCHANGED <<db, lock, conn>>

\* get_habit_by_id, SELECT Day FROM HabitDays WHERE HabitID = ?
ReadDays(p) ==
  /\ pc[p] = "read_days"
  /\ req' = [req EXCEPT ![p].days =
               [i \in 1..Len(RowsOf(db.HabitDays, req[p].habit_id)) |->
                  RowsOf(db.HabitDays, req[p].habit_id)[i].Day]]
  /\ pc' = [pc EXCEPT ![p] = "read_times"]
  /\ UNCHANGED <<db, lock, ret, conn>>

\* get_habit_by_id, SELECT Time FROM HabitTimes WHERE HabitID = ?, and return.
ReadTimes(p) ==
  /\ pc[p] = "read_times"
  /\ ret' = Response("get", 200, req[p].habit_id,
                     [days |-> req[p].days,
                      times |-> [i \in 1..Len(RowsOf(db.HabitTimes, req[p].habit_id)) |->
                                   [time |-> RowsOf(db.HabitTimes, req[p].habit_id)[i].Time]]])
  /\ pc' = [pc EXCEPT ![p] = "idle"]
  /\ req' = [req EXCEPT ![p] = <<>>]
  /\ UNCHANGED <<db, lock, conn>>

\* --------------------------------------------------------- input domains
InDays == {"Monday", "Tuesday"}

InPeriods == {"Morning", "Evening"}

\* Clock time "08" as text.
T08 == <<48, 56>>

NoRet == [op |-> "none", status |-> 0, habit_id |-> 0, body |-> <<>>, args |-> <<>>]

Init ==
  /\ db = EmptyDb
  /\ lock = Free
  /\ ret = NoRet
  /\ pc = [p \in Slots |-> "idle"]
  /\ req = [p \in Slots |-> <<>>]
  /\ conn = [p \in Slots |-> <<>>]

\* ------------------------------------------------------------------ Spec
\* Habits with their days, periods and completions: create, complete, delete
\* and read, on ids that exist, that were deleted and that were never used.
DayLists == {<<"Monday">>, <<"Monday", "Monday">>}

TimeLists == {<<"Morning">>, <<"Morning", "Evening">>, <<"Morning", "Morning">>}

Next ==
  \/ /\ db.seqHabits < MaxHabits
     /\ \E days \in DayLists, times \in TimeLists :
          ApiCreateHabit("run", 1, 0, "Health", T08, EmptyText, days, times)
  \/ \E h \in 1..MaxHabits : ApiDeleteHabit(h)
  \/ \E h \in 1..MaxHabits : ApiGetHabit(h)
  \/ /\ db.seqCompletions < MaxCompletions
     /\ \E h \in 0..MaxHabits : ApiAddCompletion(h, 0)

Spec == Init /\ [][Next]_vars

\* C1: for every existing habit H, after delete(H) returns, getById(H) is
\* not-found and no HabitDays, HabitTimes or completions row carries H.
C1_DeleteRemovesAllRows ==
  (ret.op = "delete" /\ ret.status = 200 /\ ret.args.existed) =>
     /\ ~HabitExists(db, ret.habit_id)
     /\ \A i \in 1..Len(db.HabitDays) : db.HabitDays[i].HabitID # ret.habit_id
     /\ \A i \in 1..Len(db.HabitTimes) : db.HabitTimes[i].HabitID # ret.habit_id
     /\ \A i \in 1..Len(db.completions) : db.completions[i].habit_id # ret.habit_id

\* C9: one recordCompletion(H, t) adds exactly 1 to the completed-count and to
\* the total-count of every HabitTimes row of H, also when H has the same
\* period twice, and leaves the rows of every other habit as they were.
C9_CompletionAddsOnePerRow ==
  [][(db'.seqCompletions # db.seqCompletions) =>
       /\ Len(db'.HabitTimes) = Len(db.HabitTimes)
       /\ \A i \in 1..Len(db.HabitTimes) :
            LET inc == IF db.HabitTimes[i].HabitID = ret'.habit_id THEN 1 ELSE 0
            IN /\ db'.HabitTimes[i].No_of_days_Completed
                    = db.HabitTimes[i].No_of_days_Completed + inc
               /\ db'.HabitTimes[i].Total_no_of_days
                    = db.HabitTimes[i].Total_no_of_days + inc]_vars

\* ----------------------------------------------------------- SpecReplace
\* Creation, then the replace of a habit's days or periods through the
\* update request, with every list of days and periods up to MaxList.
NextReplace ==
  \/ /\ db.seqHabits < MaxHabits
     /\ \E days \in NonEmptySeqsUpTo(InDays, MaxList) :
          ApiCreateHabit("run", 1, 0, "Health", T08, EmptyText, days,
                         <<"Morning", "Evening">>)
  \/ \E h \in 1..MaxHabits, days \in SeqsUpTo(InDays, MaxList) :
       ApiUpdateHabit(h, <<>>, Present(days), Absent)
  \/ \E h \in 1..MaxHabits, times \in SeqsUpTo(InPeriods, MaxList) :
       ApiUpdateHabit(h, <<>>, Absent, Present(times))
  \/ \E h \in 1..MaxHabits : ApiGetHabit(h)
  \/ Collect

SpecReplace == Init /\ [][NextReplace]_vars

\* C2: setDays is a full replace: after setDays(H, D) on an existing habit,
\* getById(H).days equals D as a multiset; the same for setTimes and the
\* habit's time periods.
C2_SetIsFullReplace ==
  (ret.op = "update" /\ HabitExists(db, ret.habit_id)) =>
     /\ ret.args.days # Absent =>
          SameBag(HabitDict(db, ret.habit_id).days, ret.args.days[1])
     /\ ret.args.times # Absent =>
          SameBag(HabitDict(db, ret.habit_id).times,
                  [i \in 1..Len(ret.args.times[1]) |-> [time |-> ret.args.times[1][i]]])

\* ------------------------------------------------------------ SpecCreate
\* Creation with lists of days and periods that repeat an element, while a
\* failed replace may have left the write lock with an orphaned connection.
AsPeriod(day) == IF day = "Monday" THEN "Morning" ELSE "Evening"

CreateLists ==
  {<<days, [i \in 1..Len(days) |-> AsPeriod(days[i])]>> :
      days \in NonEmptySeqsUpTo(InDays, MaxList)}
  \cup {<< <<"Monday", "Monday">>, <<"Morning", "Evening">> >>,
        << <<"Monday", "Tuesday">>, <<"Evening", "Evening">> >>}

NextCreate ==
  \/ /\ db.seqHabits < MaxHabits
     /\ \E lists \in CreateLists :
          ApiCreateHabit("run", 1, 0, "Health", T08, EmptyText, lists[1], lists[2])
  \/ \E h \in 1..MaxHabits : ApiUpdateHabit(h, <<>>, Present(<<"Tuesday">>), Absent)
  \/ \E h \in 1..MaxHabits : ApiGetHabit(h)
  \/ Collect

SpecCreate == Init /\ [][NextCreate]_vars

\* C4: a habit created with non-empty lists of days D and periods T reads back,
\* right after creation, with days equal to D and times equal to T wrapped as
\* {time: period}, every duplicate as many times as supplied.
C4_CreateReadsBack ==
  (ret.op = "create" /\ ret.status = 200) =>
     /\ HabitExists(db, ret.habit_id)
     /\ ret.body = HabitDict(db, ret.habit_id)
     /\ ret.body.ID = ret.habit_id
     /\ SameBag(ret.body.days, ret.args.days)
     /\ Len(ret.body.times) = Len(ret.args.times)
     /\ \A period \in Periods :
          Cardinality({i \in 1..Len(ret.body.times) : ret.body.times[i] = [time |-> period]})
            = Cardinality({i \in 1..Len(ret.args.times) : ret.args.times[i] = period})

\* A second habit created with the same day twice and the same period twice.
C4_Witness ==
  /\ ret.op = "create" /\ ret.status = 200 /\ ret.habit_id = 2
  /\ ret.args.days = <<"Tuesday", "Tuesday">>
  /\ ret.args.times = <<"Evening", "Evening">>
  /\ HabitExists(db, 1)

\* ------------------------------------------------------------ SpecFields
\* Partial updates of the scalar columns: habit 1 is updated with subsets of
\* the six columns, the habits created after it stand by, and the id after
\* the last one is never created.
T09 == <<48, 57>>

NewValues ==
  [Desc |-> "read", Priority |-> 0, Prefernces |-> 7, Type |-> "Learning",
   Time |-> T09, Remarks |-> <<104, 105>>]

\* No column, one column, all but one column, or all six.
PartialFields ==
  {[c \in S |-> NewValues[c]] :
     S \in {T \in SUBSET HabitCols : Cardinality(T) <= 1 \/ Cardinality(T) >= 5}}

NextFields ==
  \/ /\ db.seqHabits < MaxHabits
     /\ ApiCreateHabit("run", 1, 0, "Health", T08, EmptyText,
                       <<"Monday">>, <<"Morning", "Evening">>)
  \/ \E h \in {1, MaxHabits + 1}, fields \in PartialFields :
       ApiUpdateHabit(h, fields, Absent, Absent)
  \/ \E h \in {1, MaxHabits + 1} : ApiUpdateHabit(h, <<>>, Present(<<"Tuesday">>), Absent)
  \/ \E h \in 1..MaxHabits : ApiGetHabit(h)
  \/ Collect

SpecFields == Init /\ [][NextFields]_vars

\* The step is an update request that only carries scalar fields.
FieldsUpdateStep ==
  /\ ret'.op = "update"
  /\ ret'.args.days = Absent /\ ret'.args.times = Absent
  /\ (ret' # ret \/ db' # db)

\* C5: update(H, partialFields) on an existing habit sets the supplied columns
\* to the new values and leaves every absent column, the habit's days and
\* times, and every other habit as they were.
C5_UpdateChangesOnlySupplied ==
  [][(FieldsUpdateStep /\ HabitExists(db, ret'.habit_id)) =>
       /\ DOMAIN db'.Habits = DOMAIN db.Habits
       /\ \A i \in DOMAIN db.Habits : i # ret'.habit_id => db'.Habits[i] = db.Habits[i]
       /\ \A c \in HabitCols \ DOMAIN ret'.args.fields :
            db'.Habits[ret'.habit_id][c] = db.Habits[ret'.habit_id][c]
       /\ ret'.status = 200 =>
            \A c \in DOMAIN ret'.args.fields :
              db'.Habits[ret'.habit_id][c] = ret'.args.fields[c]
       /\ ret'.status # 200 => db' = db
       /\ db'.HabitDays = db.HabitDays
       /\ db'.HabitTimes = db.HabitTimes
       /\ db'.completions = db.completions]_vars

\* Habit 1 after a successful update of its priority alone, to 0, beside an
\* untouched habit 2.
C5_Witness ==
  /\ ret.op = "update" /\ ret.status = 200 /\ ret.habit_id = 1
  /\ DOMAIN ret.args.fields = {"Priority"}
  /\ HabitExists(db, 1) /\ HabitExists(db, 2)
  /\ db.Habits[1].Priority = 0 /\ db.Habits[1].Desc = "run"
  /\ db.Habits[2].Priority = 1

\* C6: update on an id that no habit has fails with NotFoundError: it does not
\* report success and it changes no row.
C6_UpdateUnknownIdFails ==
  (ret.op = "update" /\ ~ret.args.existed /\ DOMAIN ret.args.fields # {}) =>
     ret.status # 200

\* -------------------------------------------------------------- SpecList
\* Habits that differ in priority, clock time and category, and the list
\* request with and without a category filter.
MaxListed == 3

T10 == <<49, 48>>

T9 == <<57>>

NextList ==
  \/ /\ db.seqHabits < MaxListed
     /\ \E priority \in 1..3, time \in {T10, T9}, habit_type \in {"Health", "Learning"} :
          ApiCreateHabit("run", priority, 0, habit_type, time, EmptyText,
                         <<"Monday">>, <<"Morning">>)
  \/ \E habit_type \in {"", "Health", "Learning"} : ApiGetHabits(habit_type)

SpecList == Init /\ [][NextList]_vars

\* a <= b in plain string order: equal, or smaller at the first place where
\* they differ, or a proper prefix.
PlainStringLeq(a, b) ==
  \/ a = b
  \/ Len(a) < Len(b) /\ \A i \in 1..Len(a) : a[i] = b[i]
  \/ \E k \in 1..Len(a) :
       /\ k <= Len(b)
       /\ \A i \in 1..(k - 1) : a[i] = b[i]
       /\ a[k] < b[k]

\* A sequence of habit objects is in the order priority descending, then
\* clock-time string ascending.
InListOrder(body) ==
  \A k \in 1..(Len(body) - 1) :
    \/ body[k].Priority > body[k + 1].Priority
    \/ /\ body[k].Priority = body[k + 1].Priority
       /\ PlainStringLeq(body[k].Time, body[k + 1].Time)

Occurrences(body, habit_id) == Cardinality({k \in 1..Len(body) : body[k].ID = habit_id})

\* Every object of a result carries the columns of the stored row of its id.
CarriesStoredRows(body) ==
  \A k \in 1..Len(body) :
    /\ body[k].ID \in DOMAIN db.Habits
    /\ \A c \in HabitCols : body[k][c] = db.Habits[body[k].ID][c]

\* C7: list(filter) returns exactly the stored habits (those of the category
\* when a filter is given), each once, by priority descending and, among equal
\* priorities, by the clock-time string ascending.
C7_ListSortedAndComplete ==
  (ret.op = "list") =>
     /\ CarriesStoredRows(ret.body)
     /\ \A h \in DOMAIN db.Habits :
          Occurrences(ret.body, h) =
            IF ret.args.type = "" \/ db.Habits[h].Type = ret.args.type THEN 1 ELSE 0
     /\ InListOrder(ret.body)

\* Habits created with priorities 3, 1, 2 and the same clock time come back in
\* the order 3, 2, 1; and "10" sorts before "9".
C7_Witness ==
  /\ ret.op = "list" /\ ret.args.type = "" /\ Len(ret.body) = 3
  /\ db.Habits[1].Priority = 3 /\ db.Habits[2].Priority = 1 /\ db.Habits[3].Priority = 2
  /\ \A h \in 1..3 : db.Habits[h].Time = T10
  /\ <<ret.body[1].ID, ret.body[2].ID, ret.body[3].ID>> = <<1, 3, 2>>

\* ------------------------------------------------------------- SpecByDay
\* Habits with repeated day and period rows, and the by-day request with and
\* without a time period.
NextByDay ==
  \/ /\ db.seqHabits < MaxHabits
     /\ \E key \in {<<1, T10>>, <<1, T9>>, <<2, T10>>},
           days \in {<<"Monday">>, <<"Monday", "Monday">>, <<"Tuesday">>},
           times \in {<<"Morning">>, <<"Morning", "Morning">>} :
          ApiCreateHabit("run", key[1], 0, "Health", key[2], EmptyText, days, times)
  \/ \E day \in {"Monday", "Tuesday"}, time_of_day \in {"", "Morning", "Evening"} :
       ApiGetHabitsByDay(day, time_of_day)

SpecByDay == Init /\ [][NextByDay]_vars

HasDay(habit_id, day) ==
  \E i \in 1..Len(db.HabitDays) :
    db.HabitDays[i].HabitID = habit_id /\ db.HabitDays[i].Day = day

HasPeriod(habit_id, period) ==
  \E i \in 1..Len(db.HabitTimes) :
    db.HabitTimes[i].HabitID = habit_id /\ db.HabitTimes[i].Time = period

\* C8: listByDayAndTime(day, timePeriod?) returns exactly the habits with a
\* HabitDays row for the day and, when a period is given, a HabitTimes row for
\* it, each once whatever rows repeat, in the order of list.
C8_ByDayDistinctAndSorted ==
  (ret.op = "by_day" /\ ret.status = 200) =>
     /\ CarriesStoredRows(ret.body)
     /\ \A h \in DOMAIN db.Habits :
          Occurrences(ret.body, h) =
            IF /\ HasDay(h, ret.args.day)
               /\ (ret.args.time = "" \/ HasPeriod(h, ret.args.time))
              THEN 1 ELSE 0
     /\ InListOrder(ret.body)

\* A habit with the day twice and the period twice, returned once, after a
\* habit of higher priority.
C8_Witness ==
  /\ ret.op = "by_day" /\ ret.args.day = "Monday" /\ ret.args.time = "Morning"
  /\ Len(ret.body) = 2
  /\ ret.body[2].days = <<"Monday", "Monday">>
  /\ ret.body[2].times = <<"Morning", "Morning">>
  /\ ret.body[1].Priority = 2

\* -------------------------------------------------------------- SpecConc
\* Two request slots interleave replaces, completions and reads of the habits
\* created before them.
ConcHabits == 1

ConcCompletions == 1

ReplaceInputs ==
  {<<"HabitDays", <<>>>>, <<"HabitDays", <<"Tuesday">>>>,
   <<"HabitTimes", <<>>>>, <<"HabitTimes", <<"Evening">>>>}

NextConc ==
  \/ /\ db.seqHabits < ConcHabits
     /\ ApiCreateHabit("run", 1, 0, "Health", T08, EmptyText,
                       <<"Monday">>, <<"Morning", "Evening">>)
  \/ \E p \in Slots, h \in 1..ConcHabits, input \in ReplaceInputs :
       ReplaceDelete(p, input[1], h, input[2])
  \/ \E p \in Slots : ReplaceInsert(p)
  \/ \E p \in Slots : ReplaceCommit(p)
  \/ /\ db.seqCompletions < ConcCompletions
     /\ \E p \in Slots, h \in 1..ConcHabits : CompletionInsert(p, h, 0)
  \/ \E p \in Slots : CompletionUpdate(p)
  \/ \E p \in Slots : CompletionCommit(p)
  \/ \E p \in Slots, h \in 1..ConcHabits : ReadHabit(p, h)
  \/ \E p \in Slots : ReadDays(p)
  \/ \E p \in Slots : ReadTimes(p)
  \/ Collect

SpecConc == Init /\ [][NextConc]_vars

\* Slot p is committing a replace of the table's rows of habit h by the empty
\* list.
CommitsEmptyReplace(p, table, h) ==
  /\ pc[p] = "replace_commit"
  /\ req[p].table = table /\ req[p].habit_id = h /\ req[p].new = <<>>

\* C3: the delete-then-insert of setDays/setTimes is one atomic unit: the
\* associations any reader can see (the committed rows) never go from some to
\* none for a habit unless a caller supplied the empty set, whether the
\* replace succeeds or fails part-way.
C3_ReplaceNeverShowsEmpty ==
  [][\A h \in 1..ConcHabits, table \in {"HabitDays", "HabitTimes"} :
       (RowsOf(db[table], h) # <<>> /\ RowsOf(db'[table], h) = <<>>) =>
          \E p \in Slots : CommitsEmptyReplace(p, table, h)]_vars

\* A replace of habit 1's days by a non-empty list has run its DELETE, and a
\* reader in the other slot has just read the days of habit 1.
C3_Witness ==
  \E p, q \in Slots :
    /\ pc[p] = "replace_insert" /\ req[p].table = "HabitDays"
    /\ req[p].habit_id = 1 /\ req[p].new # <<>>
    /\ RowsOf(conn[p].HabitDays, 1) = <<>>
    /\ pc[q] = "read_times" /\ req[q].habit_id = 1 /\ req[q].days = <<"Monday">>

Counters(d, h) ==
  [i \in 1..Len(RowsOf(d.HabitTimes, h)) |->
     <<RowsOf(d.HabitTimes, h)[i].No_of_days_Completed,
       RowsOf(d.HabitTimes, h)[i].Total_no_of_days>>]

\* C10: recordCompletion's insert-then-increment is atomic: in the committed
\* rows, which are all a reader sees, a new completions row of habit H appears
\* in the same step in which the counters of all of H's HabitTimes rows go up,
\* and the counters never go up without a new completions row.
C10_CompletionAtomic ==
  [][\A h \in 1..ConcHabits :
       LET added == Len(CompletionsOf(db'.completions, h))
                      > Len(CompletionsOf(db.completions, h))
           before == Counters(db, h)
           after == Counters(db', h)
       IN /\ added =>
               /\ Len(after) = Len(before)
               /\ \A i \in 1..Len(before) :
                    after[i][1] > before[i][1] /\ after[i][2] > before[i][2]
          /\ (Len(after) = Len(before) /\ after # before) => added]_vars

\* A completion of habit 1 is inserted and its counters updated inside the
\* open transaction while the committed rows, which the other slot is reading,
\* show neither.
C10_Witness ==
  \E p, q \in Slots :
    /\ pc[p] = "completion_commit" /\ req[p].habit_id = 1
    /\ Len(conn[p].completions) = Len(db.completions) + 1
    /\ Counters(conn[p], 1) # Counters(db, 1)
    /\ pc[q] = "read_times" /\ req[q].habit_id = 1

\* ------------------------------------------------------------- SpecStats
\* Completion instants are integer unix timestamps; get_habit_stats turns them
\* into local calendar dates (the server's zone is taken to be UTC), formats
\* each as 'YYYY-MM-DD', sorts the distinct strings and parses them back.
StatsCompletions == 4

SecondsPerDay == 24 * 60 * 60

\* The date <<year, month, day>> of a timestamp: datetime.fromtimestamp.
DateOf(ts) ==
  LET z == (ts \div SecondsPerDay) + 719468
      era == z \div 146097
      doe == z - era * 146097
      yoe == (doe - doe \div 1460 + doe \div 36524 - doe \div 146096) \div 365
      doy == doe - (365 * yoe + yoe \div 4 - yoe \div 100)
      mp == (5 * doy + 2) \div 153
      day == doy - (153 * mp + 2) \div 5 + 1
      month == IF mp < 10 THEN mp + 3 ELSE mp - 9
      year == yoe + era * 400 + (IF month <= 2 THEN 1 ELSE 0)
  IN <<year, month, day>>

\* A number as n decimal digits, zero padded.
RECURSIVE Digits(_, _)
Digits(value, n) ==
  IF n = 0 THEN <<>> ELSE Append(Digits(value \div 10, n - 1), 48 + (value % 10))

\* strftime('%Y-%m-%d')
Strftime(date) == Digits(date[1], 4) \o <<45>> \o Digits(date[2], 2) \o <<45>> \o Digits(date[3], 2)

\* strptime(text, '%Y-%m-%d')
Strptime(text) ==
  <<DigitsValue(SubSeq(text, 1, 4)), DigitsValue(SubSeq(text, 6, 7)),
    DigitsValue(SubSeq(text, 9, 10))>>

IsLeap(year) == year % 4 = 0 /\ (year % 100 # 0 \/ year % 400 = 0)

DaysInMonth(year, month) ==
  IF month = 2 THEN (IF IsLeap(year) THEN 29 ELSE 28)
  ELSE IF month \in {4, 6, 9, 11} THEN 30 ELSE 31

\* date - timedelta(days=1)
PrevDate(date) ==
  IF date[3] > 1 THEN <<date[1], date[2], date[3] - 1>>
  ELSE IF date[2] > 1 THEN <<date[1], date[2] - 1, DaysInMonth(date[1], date[2] - 1)>>
  ELSE <<date[1] - 1, 12, 31>>

\* Variant of sorted_dates that sorts the date strings ascending.
RECURSIVE sorted_dates_ascending(_)
sorted_dates_ascending(dates_completed) ==
  IF dates_completed = {} THEN <<>>
  ELSE LET first == CHOOSE x \in dates_completed :
                      \A y \in dates_completed \ {x} : TextLess(x, y)
       IN <<first>> \o sorted_dates_ascending(dates_completed \ {first})

\* sorted(dates_completed, reverse=True): the strings in descending order.
RECURSIVE sorted_dates(_)
sorted_dates(dates_completed) ==
  IF dates_completed = {} THEN <<>>
  ELSE LET first == CHOOSE x \in dates_completed :
                      \A y \in dates_completed \ {x} : TextLess(y, x)
       IN <<first>> \o sorted_dates(dates_completed \ {first})

\* The loop over sorted_dates[1:]: one more day for each date that is the day
\* before the one last counted, until the first that is not.
RECURSIVE ConsecutiveDays(_, _, _)
ConsecutiveDays(sorted, i, current_date) ==
  IF i > Len(sorted) THEN 0
  ELSE LET next_date == Strptime(sorted[i])
       IN IF next_date = PrevDate(current_date)
            THEN 1 + ConsecutiveDays(sorted, i + 1, next_date)
            ELSE 0

\* get_habit_stats: the habit is not looked up, only its completions rows.
get_habit_stats(d, habit_id) ==
  LET completions == CompletionsOf(d.completions, habit_id)
      total == Len(completions)
      dates_completed ==
        {Strftime(DateOf(completions[i].completed_at)) : i \in 1..total}
      sorted == sorted_dates(dates_completed)
  IN [total |-> total,
      streakDays |-> IF total > 0
                       THEN 1 + ConsecutiveDays(sorted, 2, Strptime(sorted[1]))
                       ELSE 0]

\* api_get_stats: 400 without an id.
ApiGetStats(idOpt) ==
  /\ Quiet
  /\ ret' = IF idOpt = Absent
              THEN [op |-> "stats", status |-> 400, habit_id |-> 0, body |-> <<>>,
                    args |-> <<>>]
              ELSE [op |-> "stats", status |-> 200, habit_id |-> idOpt[1],
                    body |-> get_habit_stats(db, idOpt[1]), args |-> <<>>]
  /\ UNCHANGED <<db, lock, pc, req, conn>>

\* The timestamp of a second of a day of January 2024.
January2024(day, second) == (19722 + day) * SecondsPerDay + second

StatsInstants ==
  {January2024(5, 0), January2024(7, SecondsPerDay - 1), January2024(8, 0),
   January2024(9, 0), January2024(10, 0), January2024(10, SecondsPerDay - 1)}

NextStats ==
  \/ /\ db.seqCompletions < StatsCompletions
     /\ \E completed_at \in StatsInstants : ApiAddCompletion(1, completed_at)
  \/ /\ db.seqCompletions < StatsCompletions
     /\ ApiAddCompletion(2, January2024(9, 0))
  \/ \E idOpt \in {Absent, Present(1), Present(2)} : ApiGetStats(idOpt)

SpecStats == Init /\ [][NextStats]_vars

\* The day numbers (days since the epoch) of the completions rows of a habit.
DayNumbers(habit_id) ==
  {db.completions[i].completed_at \div SecondsPerDay :
     i \in {j \in 1..Len(db.completions) : db.completions[j].habit_id = habit_id}}

\* The length of the run of consecutive day numbers that ends at the largest.
RunEndingAtLatest(days) ==
  IF days = {} THEN 0
  ELSE LET latest == CHOOSE x \in days : \A y \in days : y <= x
       IN CHOOSE k \in 1..Cardinality(days) :
            /\ \A j \in 0..(k - 1) : (latest - j) \in days
            /\ (latest - k) \notin days

\* C11: getStats returns total = the number of completions rows of the habit,
\* several on one day counted each, and streakDays = 0 when there is none,
\* otherwise the length of the run of consecutive calendar dates that ends at
\* the most recent completion date, whatever the insertion order.
C11_StatsTotalAndStreak ==
  (ret.op = "stats" /\ ret.status = 200) =>
     /\ ret.body.total =
          Cardinality({i \in 1..Len(db.completions) :
                         db.completions[i].habit_id = ret.habit_id})
     /\ ret.body.streakDays = RunEndingAtLatest(DayNumbers(ret.habit_id))

\* Completions recorded on January 8, 10, 5 and 9, in that order: total 4 and
\* a streak of 3.
C11_Witness ==
  /\ ret.op = "stats" /\ ret.habit_id = 1
  /\ [i \in 1..Len(db.completions) |-> db.completions[i].completed_at]
       = <<January2024(8, 0), January2024(10, 0), January2024(5, 0), January2024(9, 0)>>
  /\ ret.body = [total |-> 4, streakDays |-> 3]

\* ------------------------------------------------------------ SpecRemark
\* Python's str methods over texts (sequences of character codes).
MaxWords == 20

RemarkHabits == 1

\* Merges are explored while the stored remark is at most this long.
MaxRemarkChars == 42

IsSpace(c) == c \in {9, 10, 11, 12, 13, 32}

\* str.strip()
RECURSIVE Strip(_)
Strip(t) ==
  IF t = <<>> THEN t
  ELSE IF IsSpace(Head(t)) THEN Strip(Tail(t))
  ELSE IF IsSpace(t[Len(t)]) THEN Strip(SubSeq(t, 1, Len(t) - 1))
  ELSE t

\* str.split(): the maximal runs of non-whitespace characters.
RECURSIVE Split(_)
Split(t) ==
  IF t = <<>> THEN <<>>
  ELSE IF IsSpace(Head(t)) THEN Split(Tail(t))
  ELSE LET stops == {i \in 1..Len(t) : IsSpace(t[i])}
           end == IF stops = {} THEN Len(t) + 1
                  ELSE CHOOSE i \in stops : \A j \in stops : i <= j
       IN <<SubSeq(t, 1, end - 1)>> \o Split(SubSeq(t, end, Len(t)))

\* ' '.join(words)
RECURSIVE Join(_)
Join(words) ==
  IF words = <<>> THEN <<>>
  ELSE IF Len(words) = 1 THEN words[1]
  ELSE words[1] \o <<32>> \o Join(Tail(words))

\* needle in hay
Contains(hay, needle) ==
  \E i \in 0..(Len(hay) - Len(needle)) : SubSeq(hay, i + 1, i + Len(needle)) = needle

\* "</think>"
ThinkEnd == <<60, 47, 116, 104, 105, 110, 107, 62>>

\* content.split("</think>", 1)[1]: what follows the first "</think>".
AfterThink(content) ==
  LET at == CHOOSE i \in 0..(Len(content) - Len(ThinkEnd)) :
              /\ SubSeq(content, i + 1, i + Len(ThinkEnd)) = ThinkEnd
              /\ \A j \in 0..(i - 1) : SubSeq(content, j + 1, j + Len(ThinkEnd)) # ThinkEnd
  IN SubSeq(content, at + Len(ThinkEnd) + 1, Len(content))

\* The simple remark combining logic of the fallback.
Combine(current_remark, text) ==
  IF current_remark # <<>> /\ Contains(current_remark, text)
    THEN current_remark
    ELSE Strip(current_remark \o <<46, 32>> \o text)

\* The collaborator of one call: <<"absent">> without LangChain, <<"fails">>
\* when chain_remarker.invoke raises, <<"content", text>> when it answers.
Generate(collaborator, current_remark, text) ==
  IF collaborator[1] = "content"
    THEN IF Contains(collaborator[2], ThinkEnd)
           THEN Strip(AfterThink(collaborator[2]))
           ELSE Strip(collaborator[2])
    ELSE Combine(current_remark, text)

\* Variant of Truncate that lets one word more through.
TruncateLoose(new_remark) ==
  IF Len(Split(new_remark)) > MaxWords + 1
    THEN Join(SubSeq(Split(new_remark), 1, MaxWords + 1))
    ELSE new_remark

\* Truncate to 20 words: a longer text becomes its first 20 words joined by
\* single spaces, a shorter one is kept as it is.
Truncate(new_remark) ==
  IF Len(Split(new_remark)) > MaxWords
    THEN Join(SubSeq(Split(new_remark), 1, MaxWords))
    ELSE new_remark

\* update_habit_remark on a habit that exists.
update_habit_remark(d, habit_id, text, collaborator) ==
  LET current_remark == d.Habits[habit_id].Remarks
      new_remark == Truncate(Generate(collaborator, current_remark, text))
  IN [d EXCEPT !.Habits[habit_id].Remarks = new_remark]

\* remarker: 400 without habit_id or text, 404 when update_habit_remark
\* returns None; its UPDATE raises on a locked database -> 500.
ApiRemarker(habit_id, text, collaborator) ==
  /\ Quiet
  /\ LET status == IF habit_id = 0 \/ text = <<>> THEN 400
                   ELSE IF ~HabitExists(db, habit_id) THEN 404
                   ELSE IF lock # Free THEN 500
                   ELSE 200
     IN /\ db' = IF status = 200
                   THEN update_habit_remark(db, habit_id, text, collaborator)
                   ELSE db
        /\ ret' = [op |-> "remark", status |-> status, habit_id |-> habit_id,
                   body |-> IF status = 200 THEN db'.Habits[habit_id].Remarks ELSE <<>>,
                   args |-> [text |-> text, collaborator |-> collaborator[1],
                             before |-> IF HabitExists(db, habit_id)
                                          THEN db.Habits[habit_id].Remarks ELSE <<>>,
                             existed |-> HabitExists(db, habit_id)]]
  /\ UNCHANGED <<lock, pc, req, conn>>

\* n times the one-letter word c, separated by single spaces.
WordsOf(c, n) == Join([i \in 1..n |-> <<c>>])

\* Remarks given at creation: none, "w", 21 words, 19 words after a blank.
InitialRemarks == {EmptyText, <<119>>, WordsOf(119, MaxWords + 1),
                   <<32>> \o WordsOf(119, MaxWords - 1)}

\* New texts: "x", "w", 21 words.
RemarkTexts == {<<120>>, <<119>>, WordsOf(120, MaxWords + 1)}

\* Collaborator outcomes: absent, failing, a short answer after its reasoning,
\* an answer of 22 words on two lines.
Collaborators ==
  {<<"absent">>, <<"fails">>,
   <<"content", <<60, 116, 62, 122>> \o ThinkEnd \o <<10, 111, 107, 32>> >>,
   <<"content", WordsOf(122, MaxWords + 1) \o <<10, 122, 10>> >>}

NextRemark ==
  \/ /\ db.seqHabits < RemarkHabits
     /\ \E remarks \in InitialRemarks :
          ApiCreateHabit("run", 1, 0, "Health", T08, remarks, <<"Monday">>, <<"Morning">>)
  \/ \E h \in 1..RemarkHabits :
       ApiUpdateHabit(h, [Remarks |-> WordsOf(120, MaxWords + 1)], Absent, Absent)
  \/ \E h \in 0..(RemarkHabits + 1), text \in RemarkTexts \cup {EmptyText},
        collaborator \in Collaborators :
       /\ HabitExists(db, h) => Len(db.Habits[h].Remarks) <= MaxRemarkChars
       /\ ApiRemarker(h, text, collaborator)

SpecRemark == Init /\ [][NextRemark]_vars

\* The number of whitespace-separated words of a text.
WordCount(t) ==
  Cardinality({i \in 1..Len(t) : ~IsSpace(t[i]) /\ (i = 1 \/ IsSpace(t[i - 1]))})

\* C12: for every existing habit, prior remark and new text, with the
\* collaborator answering, failing or absent, the text mergeRemark returns has
\* at most 20 whitespace-separated words and is the remark stored on the
\* Habit row afterwards.
C12_RemarkCutAndStored ==
  (ret.op = "remark" /\ ret.status = 200) =>
     /\ WordCount(ret.body) <= MaxWords
     /\ db.Habits[ret.habit_id].Remarks = ret.body

\* A merge whose collaborator answered 22 words on two lines: 20 are stored.
C12_Witness ==
  /\ ret.op = "remark" /\ ret.status = 200 /\ ret.args.collaborator = "content"
  /\ ret.body = WordsOf(122, MaxWords)
  /\ db.Habits[ret.habit_id].Remarks = WordsOf(122, MaxWords)

\* C13: on the fallback path mergeRemark surfaces no error; when newText is a
\* substring of the existing remark the stored remark stays exactly as it was,
\* whatever remark the habit holds; otherwise the stored remark becomes
\* "<existing>. <newText>" trimmed and cut to 20 words.
C13_FallbackKeepsOrAppends ==
  (ret.op = "remark" /\ ret.args.collaborator # "content" /\ ret.args.existed
     /\ ret.args.text # <<>>) =>
     /\ ret.status = 200
     /\ db.Habits[ret.habit_id].Remarks =
          IF Contains(ret.args.before, ret.args.text)
            THEN ret.args.before
            ELSE Truncate(Strip(ret.args.before \o <<46, 32>> \o ret.args.text))

\* ------------------------------------------------------------- SpecBatch
\* Creation requests whose list of days or of periods carries, as its second
\* element, a value the CHECK constraint of the table rejects.
BatchDays == {<<"Monday">>, <<"Monday", "Tuesday">>, <<"Monday", "Funday">>}

BatchTimes == {<<"Morning">>, <<"Morning", "Evening">>, <<"Morning", "Night">>}

NextBatch ==
  \/ /\ db.seqHabits < MaxHabits
     /\ \E days \in BatchDays, times \in BatchTimes :
          ApiCreateHabit("run", 1, 0, "Health", T08, EmptyText, days, times)
  \/ \E h \in 1..MaxHabits : ApiGetHabit(h)
  \/ \E h \in 1..MaxHabits : ApiDeleteHabit(h)
  \/ Collect

SpecBatch == Init /\ [][NextBatch]_vars

\* C14: creating a habit is all-or-nothing: when the insert of a day row or of
\* a period row fails mid-batch, the store afterwards holds no Habits row, no
\* HabitDays row and no HabitTimes row of the habit being created.
C14_CreateAllOrNothing ==
  (ret.op = "create" /\ ret.status = 500 /\ ret.habit_id # 0) =>
     /\ ~HabitExists(db, ret.habit_id)
     /\ \A i \in 1..Len(db.HabitDays) : db.HabitDays[i].HabitID # ret.habit_id
     /\ \A i \in 1..Len(db.HabitTimes) : db.HabitTimes[i].HabitID # ret.habit_id

\* --------------------------------------------------------------- SpecOps
\* Every operation on habits that the HTTP interface offers, in any order:
\* create, update of scalar fields, setDays, setTimes, recordCompletion and
\* delete, on ids that exist, that were deleted and that are not yet used.
OpsTimes == {<<"Morning", "Evening">>, <<"Morning", "Morning">>}

\* Update requests: a scalar field, the days, or the periods; the lists empty
\* or not.
OpsUpdates ==
  {<<[Priority |-> 0], Absent, Absent>>,
   <<<<>>, Present(<<>>), Absent>>,
   <<<<>>, Absent, Present(<<>>)>>,
   <<<<>>, Absent, Present(<<"Morning", "Evening">>)>>}

NextOps ==
  \/ /\ db.seqHabits < MaxHabits
     /\ \E times \in OpsTimes :
          ApiCreateHabit("run", 1, 0, "Health", T08, EmptyText, <<"Monday">>, times)
  \/ \E h \in 1..MaxHabits, request \in OpsUpdates :
       ApiUpdateHabit(h, request[1], request[2], request[3])
  \/ /\ db.seqCompletions < MaxCompletions
     /\ \E h \in 1..MaxHabits : ApiAddCompletion(h, 0)
  \/ \E h \in 1..MaxHabits : ApiDeleteHabit(h)
  \/ Collect

SpecOps == Init /\ [][NextOps]_vars

\* C15: referential integrity in every reachable state: every HabitDays row,
\* every HabitTimes row and every completions row carries the ID of a Habits
\* row that exists.
C15_ReferentialIntegrity ==
  /\ \A i \in 1..Len(db.HabitDays) : HabitExists(db, db.HabitDays[i].HabitID)
  /\ \A i \in 1..Len(db.HabitTimes) : HabitExists(db, db.HabitTimes[i].HabitID)
  /\ \A i \in 1..Len(db.completions) : HabitExists(db, db.completions[i].habit_id)

\* C16: after any sequence of the operations, every HabitTimes row has
\* 0 <= completed-count <= total-count, and completed-count = total-count.
C16_CountersEqual ==
  \A i \in 1..Len(db.HabitTimes) :
    /\ 0 <= db.HabitTimes[i].No_of_days_Completed
    /\ db.HabitTimes[i].No_of_days_Completed <= db.HabitTimes[i].Total_no_of_days
    /\ db.HabitTimes[i].No_of_days_Completed = db.HabitTimes[i].Total_no_of_days

\* A completion has just raised the counters of a habit's row to 2 and 2 while
\* a row of another habit stands at 0 and 0.
C16_Witness ==
  /\ ret.op = "complete" /\ ret.status = 200
  /\ \E i, j \in 1..Len(db.HabitTimes) :
       /\ db.HabitTimes[i].HabitID = ret.habit_id
       /\ db.HabitTimes[i].No_of_days_Completed = 2
       /\ db.HabitTimes[i].Total_no_of_days = 2
       /\ db.HabitTimes[j].HabitID # ret.habit_id
       /\ db.HabitTimes[j].Total_no_of_days = 0

\* The step is a create request that answered with the new habit.
CreateStep == ret'.op = "create" /\ ret'.status = 200 /\ db'.Habits # db.Habits

\* C17: create returns a fresh identifier: the id a create returns differs
\* from the id every earlier create returned, deleted habits included.  The
\* AUTOINCREMENT counter never goes down, every id returned so far is at most
\* the counter, and a create returns an id above it.
C17_CreateReturnsFreshId ==
  [][/\ db'.seqHabits >= db.seqHabits
     /\ (ret'.op = "create" /\ ret'.status = 200) => ret'.habit_id <= db'.seqHabits
     /\ CreateStep =>
          /\ ret'.habit_id > db.seqHabits
          /\ ret'.habit_id \notin DOMAIN db.Habits
          /\ ret'.body.ID = ret'.habit_id]_vars

\* Habit 2 has just been created after habit 1 was created, completed and
\* deleted.
C17_Witness ==
  /\ ret.op = "create" /\ ret.status = 200 /\ ret.habit_id = 2
  /\ ~HabitExists(db, 1)
  /\ \E i \in 1..Len(db.completions) : db.completions[i].habit_id = 1
  /\ \E i \in 1..Len(db.HabitTimes) :
       db.HabitTimes[i].HabitID = 1 /\ db.HabitTimes[i].Total_no_of_days > 0

\* The step is a recordCompletion request served with the write lock free.
CompletionStep ==
  /\ ret'.op = "complete" /\ ret'.habit_id # 0
  /\ lock = Free
  /\ (ret' # ret \/ db' # db)

\* C18: recordCompletion called with an id of no existing habit succeeds,
\* returns a new completion id, appends exactly one completions row carrying
\* that habit id, and changes no HabitTimes row.
C18_CompletionOnUnknownId ==
  [][(CompletionStep /\ ~HabitExists(db, ret'.habit_id)) =>
       /\ ret'.status = 200
       /\ \A i \in 1..Len(db.completions) : db.completions[i].id # ret'.body
       /\ Len(db'.completions) = Len(db.completions) + 1
       /\ SubSeq(db'.completions, 1, Len(db.completions)) = db.completions
       /\ db'.completions[Len(db'.completions)].habit_id = ret'.habit_id
       /\ db'.completions[Len(db'.completions)].id = ret'.body
       /\ db'.HabitTimes = db.HabitTimes]_vars

\* The counters of the HabitTimes rows of a habit for one period, in row order.
RECURSIVE PeriodCounters(_, _, _)
PeriodCounters(rows, habit_id, period) ==
  IF rows = <<>> THEN <<>>
  ELSE (IF Head(rows).HabitID = habit_id /\ Head(rows).Time = period
          THEN << <<Head(rows).No_of_days_Completed, Head(rows).Total_no_of_days>> >>
          ELSE <<>>)
         \o PeriodCounters(Tail(rows), habit_id, period)

\* The step is an update request (scalar fields, setDays or setTimes).
EditStep == ret'.op = "update" /\ (ret' # ret \/ db' # db)

\* The request of the step keeps period P: it carries no list of periods, or
\* a list with P in it.
KeepsPeriod(period) ==
  \/ ret'.args.times = Absent
  \/ \E i \in 1..Len(ret'.args.times[1]) : ret'.args.times[1][i] = period

HydrateLists ==
  {<< <<"Monday">>, <<"Morning">>, "Health" >>,
   << <<"Tuesday", "Monday">>, <<"Evening", "Morning">>, "Health" >>,
   << <<"Tuesday", "Tuesday">>, <<"Evening">>, "Learning" >>}

NextHydrate ==
  \/ /\ db.seqHabits < MaxListed
     /\ \E lists \in HydrateLists :
          ApiCreateHabit("run", 1, 0, lists[3], T08, EmptyText, lists[1], lists[2])
  \/ \E h \in 1..MaxListed : ApiUpdateHabit(h, <<>>, Present(<<>>), Absent)
  \/ \E h \in 1..MaxListed : ApiUpdateHabit(h, <<>>, Absent, Present(<<>>))
  \/ \E h \in 1..MaxListed : ApiDeleteHabit(h)
  \/ \E habit_type \in {"", "Health"} : ApiGetHabits(habit_type)

SpecHydrate == Init /\ [][NextHydrate]_vars

\* C20: for every habit h that list() returns, h.days and h.times equal, as
\* multisets, the days and times getById(h.ID) returns: no row of one habit is
\* attributed to another, and a habit without day or time rows gets empty
\* lists.
C20_ListHydratesLikeGetById ==
  (ret.op = "list") =>
     \A k \in 1..Len(ret.body) :
       /\ HabitExists(db, ret.body[k].ID)
       /\ SameBag(ret.body[k].days, HabitDict(db, ret.body[k].ID).days)
       /\ SameBag(ret.body[k].times, HabitDict(db, ret.body[k].ID).times)
       /\ RowsOf(db.HabitDays, ret.body[k].ID) = <<>> => ret.body[k].days = <<>>
       /\ RowsOf(db.HabitTimes, ret.body[k].ID) = <<>> => ret.body[k].times = <<>>

\* A list of two habits, the first with its days emptied, the second with two
\* days and two periods, while the rows of a deleted habit are still stored.
C20_Witness ==
  /\ ret.op = "list" /\ Len(ret.body) = 2
  /\ ret.body[1].days = <<>> /\ ret.body[1].times # <<>>
  /\ ret.body[2].days = <<"Tuesday", "Monday">>
  /\ ret.body[2].times = <<[time |-> "Evening"], [time |-> "Morning"]>>
  /\ \E i \in 1..Len(db.HabitDays) : ~HabitExists(db, db.HabitDays[i].HabitID)

\* C21: a newly created habit starts with no history: right after create
\* returns id h, getStats(h) is {total: 0, streakDays: 0} and no completions
\* row carries habit id h, whatever creates, deletes and recordCompletion
\* calls came before, those on ids that did not exist at the time included.
C21_NewHabitHasNoHistory ==
  (ret.op = "create" /\ ret.status = 200) =>
     /\ \A i \in 1..Len(db.completions) : db.completions[i].habit_id # ret.habit_id
     /\ get_habit_stats(db, ret.habit_id) = [total |-> 0, streakDays |-> 0]

\* ------------------------------------------------------------ SpecUpdate
\* Update requests that carry scalar fields together with a list of days or
\* of periods.
UpdateRequests ==
  {<<[Priority |-> 0], Absent, Absent>>,
   <<[Priority |-> 2], Present(<<"Tuesday">>), Absent>>,
   <<[Priority |-> 3, Desc |-> "read"], Present(<<>>), Present(<<"Evening">>)>>,
   <<[Desc |-> "walk"], Present(<<>>), Present(<<>>)>>,
   <<<<>>, Absent, Present(<<"Morning">>)>>}

NextUpdate ==
  \/ /\ db.seqHabits < MaxHabits
     /\ ApiCreateHabit("run", 1, 0, "Health", T08, EmptyText,
                       <<"Monday">>, <<"Morning", "Evening">>)
  \/ \E h \in 1..MaxHabits, request \in UpdateRequests :
       ApiUpdateHabit(h, request[1], request[2], request[3])
  \/ \E h \in 1..MaxHabits : ApiGetHabit(h)
  \/ Collect

SpecUpdate == Init /\ [][NextUpdate]_vars

\* The update request of the step left the habit's scalar fields, days and
\* times with all the values it supplied.
AllApplied ==
  /\ \A c \in DOMAIN ret'.args.fields :
       db'.Habits[ret'.habit_id][c] = ret'.args.fields[c]
  /\ ret'.args.days # Absent =>
       SameBag(HabitDict(db', ret'.habit_id).days, ret'.args.days[1])
  /\ ret'.args.times # Absent =>
       SameBag(HabitDict(db', ret'.habit_id).times,
               [i \in 1..Len(ret'.args.times[1]) |-> [time |-> ret'.args.times[1][i]]])

\* C22: the update request is all-or-nothing across scalar fields, days and
\* times: on an existing habit either it reports success and the supplied
\* fields, days and times all hold the new values, or it reports an error and
\* the habit's fields, days and times are exactly as before the request.
C22_UpdateAllOrNothing ==
  [][(EditStep /\ HabitExists(db, ret'.habit_id)) =>
       \/ ret'.status = 200 /\ AllApplied
       \/ ret'.status # 200 /\ HabitDict(db', ret'.habit_id) = HabitDict(db, ret'.habit_id)]_vars

\* ------------------------------------------------------------- SpecMerge
\* update_habit_remark statement by statement, served for two requests at
\* once: the SELECT of the current remark, the UPDATE that opens the write
\* transaction, the commit.
RemarkRead(p, habit_id, text, collaborator) ==
  /\ Idle(p)
  /\ IF HabitExists(db, habit_id)
       THEN /\ pc' = [pc EXCEPT ![p] = "remark_update"]
            /\ req' = [req EXCEPT ![p] =
                         [habit_id |-> habit_id, text |-> text,
                          collaborator |-> collaborator,
                          current_remark |-> db.Habits[habit_id].Remarks]]
            /\ UNCHANGED <<db, lock, ret, conn>>
       ELSE /\ ret' = Response("remark", 404, habit_id, <<>>)
            /\ UNCHANGED <<db, lock, pc, req, conn>>

\* The remark update_habit_remark computes from what it read.
NewRemark(request) ==
  Truncate(Generate(request.collaborator, request.current_remark, request.text))

\* UPDATE Habits SET Remarks = ? WHERE ID = ?, on the rows as they are now.
SetRemark(d, habit_id, new_remark) ==
  [d EXCEPT !.Habits = [i \in DOMAIN d.Habits |->
                          IF i = habit_id THEN [d.Habits[i] EXCEPT !.Remarks = new_remark]
                          ELSE d.Habits[i]]]

\* The new remark is computed and the UPDATE takes the write lock; while
\* another connection holds it the statement raises "database is locked".
RemarkUpdate(p) ==
  /\ pc[p] = "remark_update"
  /\ IF lock = Free
       THEN /\ lock' = p
            /\ conn' = [conn EXCEPT ![p] = SetRemark(db, req[p].habit_id, NewRemark(req[p]))]
            /\ pc' = [pc EXCEPT ![p] = "remark_commit"]
            /\ UNCHANGED <<db, ret, req>>
       ELSE /\ ret' = Response("remark", 500, req[p].habit_id, <<>>)
            /\ pc' = [pc EXCEPT ![p] = "idle"]
            /\ req' = [req EXCEPT ![p] = <<>>]
            /\ UNCHANGED <<db, lock, conn>>

\* conn.commit(), conn.close(), return new_remark.
RemarkCommit(p) ==
  /\ pc[p] = "remark_commit"
  /\ db' = conn[p]
  /\ lock' = Free
  /\ ret' = Response("remark", 200, req[p].habit_id, NewRemark(req[p]))
  /\ pc' = [pc EXCEPT ![p] = "idle"]
  /\ req' = [req EXCEPT ![p] = <<>>]
  /\ conn' = [conn EXCEPT ![p] = <<>>]

\* Texts "a" and "b".
MergeTexts == {<<97>>, <<98>>}

NextMerge ==
  \/ /\ db.seqHabits < RemarkHabits
     /\ \E remarks \in {EmptyText, <<119>>} :
          ApiCreateHabit("run", 1, 0, "Health", T08, remarks, <<"Monday">>, <<"Morning">>)
  \/ \E p \in Slots, h \in 1..RemarkHabits, text \in MergeTexts,
        collaborator \in {<<"absent">>, <<"fails">>} :
       RemarkRead(p, h, text, collaborator)
  \/ \E p \in Slots : RemarkUpdate(p)
  \/ \E p \in Slots : RemarkCommit(p)

SpecMerge == Init /\ [][NextMerge]_vars

\* C23: no merge is lost under concurrency: the remark stored after two
\* concurrent fallback mergeRemark calls equals the result of running them one
\* after the other in some order.  Each commit is to leave the text merged
\* into the remark stored just before it, which makes the final remark the
\* sequential result in commit order.
C23_NoMergeLost ==
  [][\A p \in Slots :
       (pc[p] = "remark_commit" /\ pc'[p] = "idle" /\ HabitExists(db, req[p].habit_id)) =>
          db'.Habits[req[p].habit_id].Remarks =
            Truncate(Combine(db.Habits[req[p].habit_id].Remarks, req[p].text))]_vars

\* -------------------------------------------------------------- SpecRace
\* recordCompletion calls on the same habits served at once, statement by
\* statement, on habits whose periods are distinct and are not replaced.
RaceCompletions == 2

\* The calls that have run their INSERT and not yet returned.
InFlight == {p \in Slots : pc[p] \in {"completion_update", "completion_commit"}}

NextRace ==
  \/ /\ db.seqHabits < MaxHabits
     /\ ApiCreateHabit("run", 1, 0, "Health", T08, EmptyText,
                       <<"Monday">>, <<"Morning", "Evening">>)
  \/ /\ db.seqCompletions + Cardinality(InFlight) < RaceCompletions
     /\ \E p \in Slots, h \in 1..MaxHabits, completed_at \in {0, SecondsPerDay} :
          CompletionInsert(p, h, completed_at)
  \/ \E p \in Slots : CompletionUpdate(p)
  \/ \E p \in Slots : CompletionCommit(p)

SpecRace == Init /\ [][NextRace]_vars

\* Slot p returns from a successful recordCompletion on habit h in this step.
ReturnsCompletion(p, h) ==
  pc[p] = "completion_commit" /\ pc'[p] = "idle" /\ req[p].habit_id = h

\* In this step habit h gains exactly n completions rows and each of its
\* HabitTimes rows gains n on both counters.
Gains(h, n) ==
  /\ Len(CompletionsOf(db'.completions, h)) = Len(CompletionsOf(db.completions, h)) + n
  /\ Len(Counters(db', h)) = Len(Counters(db, h))
  /\ \A i \in 1..Len(Counters(db, h)) :
       /\ Counters(db', h)[i][1] = Counters(db, h)[i][1] + n
       /\ Counters(db', h)[i][2] = Counters(db, h)[i][2] + n

====
